---- MODULE Spec2Model ----
(***************************************************************************)
(* A model of the lightning-cluster gateway: src/src/cluster.rs (Cluster   *)
(* and Node) over the LND REST client of src/src/lnd.rs and a Redis cache. *)
(*                                                                         *)
(* Text (hashes, preimages, addresses, cache keys) is a sequence of        *)
(* one-character strings, so that base64 and hex are computed symbol by    *)
(* symbol as the crates do.                                                *)
(***************************************************************************)
EXTENDS Integers, Sequences, FiniteSets, TLC

(***************************************************************************)
(* Bounds of the model.                                                    *)
(***************************************************************************)
\* Number of configured nodes (Cluster.nodes).
NumNodes == 2
\* The clock stops after MaxTime seconds.
MaxTime == 3
\* Most UTXOs a backend wallet holds.
MaxUtxo == 2
\* Most addresses one backend hands out.
MaxAddr == 1
\* Most calls made to the cluster in one run.
MaxCalls == 2

(***************************************************************************)
(* Encodings: base64::decode and hex::encode, as used by to_hex.           *)
(***************************************************************************)
B64Alphabet ==
    << "A","B","C","D","E","F","G","H","I","J","K","L","M","N","O","P",
       "Q","R","S","T","U","V","W","X","Y","Z","a","b","c","d","e","f",
       "g","h","i","j","k","l","m","n","o","p","q","r","s","t","u","v",
       "w","x","y","z","0","1","2","3","4","5","6","7","8","9","+","/" >>

\* The URL-safe alphabet differs from the standard one in the last two symbols.
B64UrlAlphabet == [i \in 1..64 |->
                     IF i = 63 THEN "-" ELSE IF i = 64 THEN "_" ELSE B64Alphabet[i]]

HexDigits == << "0","1","2","3","4","5","6","7","8","9","a","b","c","d","e","f" >>

B64Pad == "="

DecodeError == [ok |-> FALSE]

InAlphabet(c) == \E i \in 1..64 : B64Alphabet[i] = c

\* The 6-bit value of a symbol of the standard alphabet.
B64Value(c) == (CHOOSE i \in 1..64 : B64Alphabet[i] = c) - 1

\* Number of padding symbols at the end of str (at most 2 are looked at).
PadCount(str) ==
    IF Len(str) >= 2 /\ str[Len(str)] = B64Pad /\ str[Len(str) - 1] = B64Pad THEN 2
    ELSE IF Len(str) >= 1 /\ str[Len(str)] = B64Pad THEN 1
    ELSE 0

\* The bytes of the complete 4-symbol groups of body, from group g on.
RECURSIVE DecodeQuads(_, _, _)
DecodeQuads(body, g, n) ==
    IF g > n THEN << >>
    ELSE LET a == B64Value(body[4 * g - 3])
             b == B64Value(body[4 * g - 2])
             c == B64Value(body[4 * g - 1])
             d == B64Value(body[4 * g])
         IN  << a * 4 + (b \div 16), (b % 16) * 16 + (c \div 4), (c % 4) * 64 + d >>
                \o DecodeQuads(body, g + 1, n)

\* base64::decode with the standard alphabet: canonical padding is required,
\* a symbol outside the alphabet is an error, and so are non-zero trailing bits.
Base64Decode(str) ==
    LET len  == Len(str)
        pad  == PadCount(str)
        body == SubSeq(str, 1, len - pad)
        full == Len(body) \div 4
        rest == Len(body) % 4
    IN  IF len % 4 # 0 THEN DecodeError
        ELSE IF \E i \in 1..Len(body) : ~InAlphabet(body[i]) THEN DecodeError
        ELSE IF rest = 0 /\ pad = 0 THEN
            [ok |-> TRUE, bytes |-> DecodeQuads(body, 1, full)]
        ELSE IF rest = 3 /\ pad = 1 THEN
            LET a == B64Value(body[4 * full + 1])
                b == B64Value(body[4 * full + 2])
                c == B64Value(body[4 * full + 3])
            IN  IF c % 4 # 0 THEN DecodeError
                ELSE [ok |-> TRUE,
                      bytes |-> DecodeQuads(body, 1, full)
                                \o << a * 4 + (b \div 16), (b % 16) * 16 + (c \div 4) >>]
        ELSE IF rest = 2 /\ pad = 2 THEN
            LET a == B64Value(body[4 * full + 1])
                b == B64Value(body[4 * full + 2])
            IN  IF b % 16 # 0 THEN DecodeError
                ELSE [ok |-> TRUE,
                      bytes |-> DecodeQuads(body, 1, full) \o << a * 4 + (b \div 16) >>]
        ELSE DecodeError

\* hex::encode: two lower-case digits per byte.
RECURSIVE HexEncode(_)
HexEncode(bytes) ==
    IF bytes = << >> THEN << >>
    ELSE << HexDigits[(Head(bytes) \div 16) + 1], HexDigits[(Head(bytes) % 16) + 1] >>
            \o HexEncode(Tail(bytes))

\* to_hex of cluster.rs: base64-decode the text, hex-encode the bytes.
to_hex(str) ==
    LET decoded_bytes == Base64Decode(str)
    IN  IF decoded_bytes.ok
        THEN [ok |-> TRUE, val |-> HexEncode(decoded_bytes.bytes)]
        ELSE [ok |-> FALSE]

\* What a backend writes: the base64 text of bytes over a 64-symbol alphabet,
\* padded to a multiple of four symbols.
RECURSIVE Base64EncodeWith(_, _)
Base64EncodeWith(alpha, bytes) ==
    IF bytes = << >> THEN << >>
    ELSE IF Len(bytes) = 1 THEN
        << alpha[(bytes[1] \div 4) + 1], alpha[(bytes[1] % 4) * 16 + 1], B64Pad, B64Pad >>
    ELSE IF Len(bytes) = 2 THEN
        << alpha[(bytes[1] \div 4) + 1],
           alpha[(bytes[1] % 4) * 16 + (bytes[2] \div 16) + 1],
           alpha[(bytes[2] % 16) * 4 + 1], B64Pad >>
    ELSE
        << alpha[(bytes[1] \div 4) + 1],
           alpha[(bytes[1] % 4) * 16 + (bytes[2] \div 16) + 1],
           alpha[(bytes[2] % 16) * 4 + (bytes[3] \div 64) + 1],
           alpha[(bytes[3] % 64) + 1] >>
        \o Base64EncodeWith(alpha, SubSeq(bytes, 4, Len(bytes)))

\* The encodings a backend may answer in.
Encodings == {"base64", "hex", "base64url"}

EncodeAs(enc, bytes) ==
    IF enc = "base64" THEN Base64EncodeWith(B64Alphabet, bytes)
    ELSE IF enc = "hex" THEN HexEncode(bytes)
    ELSE Base64EncodeWith(B64UrlAlphabet, bytes)

(***************************************************************************)
(* Values.                                                                 *)
(***************************************************************************)
\* Option<T>: None is the empty set, Some(v) the singleton.
None == {}
Some(v) == {v}
Unwrap(opt) == CHOOSE v \in opt : TRUE

\* Result<T>, and the two ways a call does not return one.
Ok(v) == [st |-> "ok", val |-> v]
Err(e) == [st |-> "err", err |-> e]
InFlight == [st |-> "none"]
Panicked == [st |-> "panic"]

Nodes == 1..NumNodes

\* NodeClient: the Lnd variant and one of the others.
ClientKinds == {"Lnd", "CLightning"}

Pubkey(n) == << "n", HexDigits[n + 1] >>
\* A public key no node of the cluster has.
UnknownPubkey == << "n", "x" >>

\* The payment hashes and preimages the backends know, as bytes.
HashIds == {1, 2}
HashBytes == << << 171, 205 >>, << 251, 240 >> >>
PreimageBytes == << << 1, 2 >>, << 254, 220 >> >>
\* The r_hash a caller passes: the hex text of a payment hash.
HashKey(i) == HexEncode(HashBytes[i])
HashKeys == {HashKey(i) : i \in HashIds}

VARIABLES
    now,      \* the clock, in seconds
    cache,    \* the Redis keyspace: key -> [val, at, exp]
    nodes,    \* Cluster.nodes: node -> [pubkey, client]
    ledger,   \* backend invoices: node -> hash id -> "none" | "OPEN" | "SETTLED"
    pc,       \* "ready" | "fanout" | "aborted"
    cur,      \* the call in flight, or the last one: [op, key, pubkey]
    ret,      \* what that call returned
    calls,    \* the backend calls that call has issued, in order
    writes,   \* the cache writes that call has issued, in order
    pending,  \* fan-out: the nodes whose lookup has not completed
    answers,  \* fan-out: node -> the Result of its completed lookup
    order,    \* fan-out: the nodes in the order their lookups completed
    wallet,   \* backend wallets: node -> number of unspent outputs
    addrs,    \* backend wallets: node -> number of addresses handed out
    idx,      \* list_utxos(None): the node the loop is at
    acc,      \* list_utxos(None): cluster_utxos.utxos so far
    ncalls,   \* the number of calls made to the cluster
    looked,   \* history: key -> the last lookup that went to the nodes and succeeded
    failed,   \* history: the keys a fan-out has found on no node
    added,    \* history: the hashes add_invoice without owner has returned
    paid,     \* history: the pay_invoice calls that reached a backend, in order
    other     \* a lookup_invoice of another holder of the cache, in flight with these

vars == << now, cache, nodes, ledger, pc, cur, ret, calls, writes, pending, answers, order,
           wallet, addrs, idx, acc, ncalls, looked, failed, added, paid,
           other >>

\* The backends and the clock; the fan-out's state; the UTXO loop's state.
world == << now, nodes, ledger, wallet, addrs >>
fan == << pending, answers, order >>
loop == << idx, acc >>
history == << looked, failed, added, paid >>

\* Cluster::new with the expiry arguments of a configuration.
InvExpSec == 2
AddrExpSec == 3
UtxoExpSec == 1

(***************************************************************************)
(* The cache: GET and SETEX of Redis, either of which may fail.            *)
(***************************************************************************)
\* What GET key can answer now. With the clock in whole seconds, an entry read
\* in the second it expires in may or may not be there still.
CacheGet(key) ==
    {[res |-> "err"]}
    \cup (IF key \in DOMAIN cache /\ now <= cache[key].exp
          THEN {[res |-> "data", doc |-> cache[key].val]} ELSE {})
    \cup (IF key \in DOMAIN cache /\ now < cache[key].exp
          THEN {} ELSE {[res |-> "nil"]})

\* A slip: the read gives the entry its lifetime anew (a sliding expiry).
AfterGetRenewed(key) ==
    [cache EXCEPT ![key].exp = now + (cache[key].exp - cache[key].at)]

\* The keyspace after GET key has returned an entry: as it was.
AfterGet(key) == cache

\* A slip: a key that has a live entry is not written (SET with NX).
SetExIfAbsent(key, doc, seconds, accepted) ==
    IF accepted /\ seconds > 0 /\ ~(key \in DOMAIN cache /\ now < cache[key].exp)
    THEN [k \in DOMAIN cache \cup {key} |->
            IF k = key THEN [val |-> doc, at |-> now, exp |-> now + seconds]
            ELSE cache[k]]
    ELSE cache

\* The keyspace after SETEX key seconds doc, when Redis accepts it. A zero
\* expiry is rejected by Redis.
SetEx(key, doc, seconds, accepted) ==
    IF accepted /\ seconds > 0
    THEN [k \in DOMAIN cache \cup {key} |->
            IF k = key THEN [val |-> doc, at |-> now, exp |-> now + seconds]
            ELSE cache[k]]
    ELSE cache

\* The record of a SETEX in writes: the key, and whether Redis stored it.
CacheWrite(key, seconds, accepted) == [key |-> key, stored |-> accepted /\ seconds > 0]

\* serde_json::to_string of a value of the named type.
ToJson(type, v) == [json |-> type, data |-> v]

(***************************************************************************)
(* Node.                                                                   *)
(***************************************************************************)
\* LookupInvoiceResponse::to_cluster
InvoiceToCluster(resp, pubkey) ==
    [pubkey |-> pubkey, r_preimage |-> resp.r_preimage, r_hash |-> resp.r_hash,
     state |-> resp.state]

\* What LND holds under the hash text of the request path.
BackendInvoices(n, r_hash) ==
    {i \in HashIds : ledger[n][i] # "none" /\ HashKey(i) = r_hash}

\* LndClient::lookup_invoice: the request fails, or the response is the
\* invoice in the encoding the backend writes its binary fields in.
LndLookupInvoice(n, r_hash) ==
    {Err("UpstreamRequestFailed")}
    \cup {Ok([r_hash |-> EncodeAs(enc, HashBytes[i]),
              r_preimage |-> EncodeAs(enc, PreimageBytes[i]),
              state |-> ledger[n][i]]) :
            enc \in Encodings, i \in BackendInvoices(n, r_hash)}

\* Node::lookup_invoice of a node with an Lnd client.
NodeLookupInvoice(n, r_hash) ==
    {IF r.st = "ok" THEN Ok(InvoiceToCluster(r.val, nodes[n].pubkey)) ELSE r :
        r \in LndLookupInvoice(n, r_hash)}

(***************************************************************************)
(* Cluster.                                                                *)
(***************************************************************************)
Min(S) == CHOOSE x \in S : \A y \in S : x <= y

\* self.nodes.iter().find(|node| node.pubkey == pubkey)
FindNode(pubkey) ==
    LET m == {n \in Nodes : nodes[n].pubkey = pubkey}
    IN  IF m = {} THEN None ELSE Some(Min(m))

\* The invoice with r_hash and r_preimage passed through to_hex.
HexedInvoice(invoice) ==
    LET h == to_hex(invoice.r_hash)
        p == to_hex(invoice.r_preimage)
    IN  IF ~h.ok \/ ~p.ok THEN Err("EncodingError")
        ELSE Ok([invoice EXCEPT !.r_hash = h.val, !.r_preimage = p.val])

\* A slip: the invoice is cached as the node returned it.
JsonInvoiceOfNode(invoice, hexed_invoice) == ToJson("ClusterLookupInvoice", invoice)

\* serde_json::to_string(&hexed_invoice), the text lookup_invoice caches.
JsonInvoice(invoice, hexed_invoice) == ToJson("ClusterLookupInvoice", hexed_invoice)

Call(op, key, pubkey) == [op |-> op, key |-> key, pubkey |-> pubkey]
BackendCall(n, rpc) == [node |-> n, rpc |-> rpc]

\* The call returns result to its caller.
Return(result) ==
    /\ pc' = "ready"
    /\ ret' = result

\* A panic: the process unwinds and serves nothing more.
Abort ==
    /\ pc' = "aborted"
    /\ ret' = Panicked

\* A slip: only the first node's answer is looked at.
FirstResult(res) == IF res[1].st = "ok" THEN Some(res[1].val) ELSE None

\* A slip: the answer of the node that succeeded first in time.
FirstCompleted(res) ==
    LET okAt == {k \in DOMAIN order : res[order[k]].st = "ok"}
    IN  IF okAt = {} THEN None ELSE Some(res[order[Min(okAt)]].val)

\* A slip: the first successful answer that to_hex accepts, if there is one.
FirstDecodable(res) ==
    LET okNodes == {n \in DOMAIN res : res[n].st = "ok"}
        decodable == {n \in okNodes : HexedInvoice(res[n].val).st = "ok"}
    IN  IF okNodes = {} THEN None
        ELSE IF decodable = {} THEN Some(res[Min(okNodes)].val)
        ELSE Some(res[Min(decodable)].val)

\* find_map(|(_index, result)| result.ok()): the first successful answer in
\* node order.
FirstSuccess(res) ==
    LET okNodes == {n \in DOMAIN res : res[n].st = "ok"}
    IN  IF okNodes = {} THEN None ELSE Some(res[Min(okNodes)].val)

\* History: the lookup of key went to the nodes and returned invoice.
Looked(key, invoice, accepted) ==
    [looked EXCEPT ![key] = Some([val |-> invoice, at |-> now,
                                  stored |-> accepted /\ InvExpSec > 0])]

\* A slip: the nodes are asked before the failure of the read is returned.
LookupCacheErrorLate(r_hash, pubkey) ==
    /\ [res |-> "err"] \in CacheGet(r_hash)
    /\ Return(Err("CacheError"))
    /\ calls' = [i \in Nodes |-> BackendCall(i, "LookupInvoice")] /\ writes' = << >>
    /\ UNCHANGED << cache, fan, history >>

\* lookup_invoice: the cache read failed.
LookupCacheError(r_hash, pubkey) ==
    /\ [res |-> "err"] \in CacheGet(r_hash)
    /\ Return(Err("CacheError"))
    /\ calls' = << >> /\ writes' = << >>
    /\ UNCHANGED << cache, fan, history >>

\* A slip: the owner is resolved before the cached invoice is returned.
LookupHitOfOwner(r_hash, pubkey) ==
    \E got \in CacheGet(r_hash) :
        /\ got.res = "data"
        /\ IF got.doc.json = "ClusterLookupInvoice"
              /\ (pubkey = None \/ Some(got.doc.data.pubkey) = pubkey)
           THEN Return(Ok(got.doc.data))
           ELSE Abort
        /\ calls' = << >> /\ writes' = << >>
        /\ cache' = AfterGet(r_hash)
        /\ UNCHANGED << fan, history >>

\* lookup_invoice: the cache holds the key.
LookupHit(r_hash, pubkey) ==
    \E got \in CacheGet(r_hash) :
        /\ got.res = "data"
        /\ IF got.doc.json = "ClusterLookupInvoice"
           THEN Return(Ok(got.doc.data))
           ELSE Abort
        /\ calls' = << >> /\ writes' = << >>
        /\ cache' = AfterGet(r_hash)
        /\ UNCHANGED << fan, history >>

\* A slip: the expiry of the UTXO entries is passed.
InvoiceTtlOfUtxo == UtxoExpSec

\* self.inv_exp_sec as usize, the expiry lookup_invoice gives its cache entries.
InvoiceTtl == InvExpSec

\* lookup_invoice: a miss with the owner given.
LookupOwner(r_hash, pubkey) ==
    /\ [res |-> "nil"] \in CacheGet(r_hash)
    /\ pubkey # None
    /\ LET node == FindNode(Unwrap(pubkey))
       IN  IF node = None \/ nodes[Unwrap(node)].client # "Lnd"
           THEN /\ Abort
                /\ calls' = << >> /\ writes' = << >>
                /\ UNCHANGED << cache, looked >>
           ELSE \E invoice \in NodeLookupInvoice(Unwrap(node), r_hash) :
                  /\ calls' = << BackendCall(Unwrap(node), "LookupInvoice") >>
                  /\ IF invoice.st # "ok"
                     THEN /\ Return(invoice)
                          /\ writes' = << >>
                          /\ UNCHANGED << cache, looked >>
                     ELSE LET hexed_invoice == HexedInvoice(invoice.val)
                          IN  IF hexed_invoice.st # "ok"
                              THEN /\ Return(hexed_invoice)
                                   /\ writes' = << >>
                                   /\ UNCHANGED << cache, looked >>
                              ELSE \E accepted \in BOOLEAN :
                                     /\ cache' = SetEx(r_hash,
                                            JsonInvoice(invoice.val, hexed_invoice.val),
                                            InvoiceTtl, accepted)
                                     /\ writes' = << CacheWrite(r_hash, InvoiceTtl, accepted) >>
                                     /\ looked' = Looked(r_hash, hexed_invoice.val, accepted)
                                     /\ Return(hexed_invoice)
    /\ UNCHANGED << fan, failed, added, paid >>

\* A slip: the first node is asked once more at the end.
FanOutTasksRepeated(issued) ==
    [i \in 1..(Cardinality(issued) + 1) |->
       BackendCall(IF i > Cardinality(issued) THEN 1 ELSE i, "LookupInvoice")]

\* for node in &self.nodes { tasks.push(node.lookup_invoice(..)) }: one
\* request for each of the nodes issued, the first nodes of the list.
FanOutTasks(issued) ==
    [i \in 1..Cardinality(issued) |-> BackendCall(i, "LookupInvoice")]

\* lookup_invoice: a miss with no owner. join_all polls the tasks in node
\* order, so the calls before the first node without an Lnd client are issued
\* before that node's task panics.
LookupFanOut(r_hash, pubkey) ==
    /\ [res |-> "nil"] \in CacheGet(r_hash)
    /\ pubkey = None
    /\ LET bad == {n \in Nodes : nodes[n].client # "Lnd"}
           issued == IF bad = {} THEN Nodes ELSE 1..(Min(bad) - 1)
       IN  /\ calls' = FanOutTasks(issued)
           /\ IF bad = {}
              THEN /\ pc' = "fanout"
                   /\ ret' = InFlight
                   /\ pending' = Nodes
                   /\ answers' = << >>
                   /\ order' = << >>
              ELSE /\ Abort
                   /\ UNCHANGED fan
    /\ writes' = << >>
    /\ UNCHANGED << cache, history >>

\* Cluster::lookup_invoice, up to its first suspension in the fan-out.
LookupInvoice(r_hash, pubkey) ==
    /\ pc = "ready"
    /\ ncalls < MaxCalls
    /\ ncalls' = ncalls + 1
    /\ cur' = Call("lookup_invoice", r_hash, pubkey)
    /\ \/ LookupCacheError(r_hash, pubkey)
       \/ LookupHit(r_hash, pubkey)
       \/ LookupOwner(r_hash, pubkey)
       \/ LookupFanOut(r_hash, pubkey)
    /\ UNCHANGED << other, world, loop >>

\* One task of the fan-out completes.
FanOutAnswer(n) ==
    /\ pc = "fanout"
    /\ n \in pending
    /\ \E invoice \in NodeLookupInvoice(n, cur.key) :
         answers' = [m \in DOMAIN answers \cup {n} |->
                       IF m = n THEN invoice ELSE answers[m]]
    /\ pending' = pending \ {n}
    /\ order' = Append(order, n)
    /\ UNCHANGED << other, world, loop, cache, pc, cur, ret, calls, writes, ncalls, history >>

\* A slip: the failure is cached under the hash as an invoice without fields.
LookupNotFoundCached ==
    /\ Return(Err("AllNodesFailed"))
    /\ \E accepted \in BOOLEAN :
         /\ cache' = SetEx(cur.key, ToJson("ClusterLookupInvoice", << >>),
                           InvExpSec, accepted)
         /\ writes' = << CacheWrite(cur.key, InvExpSec, accepted) >>

\* No task of the fan-out succeeded: lookup_invoice returns the error.
LookupNotFound ==
    /\ Return(Err("AllNodesFailed"))
    /\ UNCHANGED << cache, writes >>

\* A slip: the first invoice a node returns ends the wait.
JoinedOnSuccess == \E n \in DOMAIN answers : answers[n].st = "ok"

\* join_all(tasks).await is ready when every task has completed.
Joined == pending = {}

\* join_all has every result: the rest of lookup_invoice.
FanOutJoin ==
    /\ pc = "fanout"
    /\ Joined
    /\ LET success_result == FirstSuccess(answers)
       IN  IF success_result = None
           THEN /\ LookupNotFound
                /\ failed' = failed \cup {cur.key}
                /\ UNCHANGED << looked, added, paid >>
           ELSE LET hexed_invoice == HexedInvoice(Unwrap(success_result))
                IN  IF hexed_invoice.st # "ok"
                    THEN /\ Return(hexed_invoice)
                         /\ UNCHANGED << cache, writes, history >>
                    ELSE \E accepted \in BOOLEAN :
                           /\ cache' = SetEx(cur.key,
                                  JsonInvoice(Unwrap(success_result), hexed_invoice.val),
                                  InvoiceTtl, accepted)
                           /\ writes' = << CacheWrite(cur.key, InvoiceTtl, accepted) >>
                           /\ looked' = Looked(cur.key, hexed_invoice.val, accepted)
                           /\ UNCHANGED << failed, added, paid >>
                           /\ Return(hexed_invoice)
    /\ UNCHANGED << other, world, loop, cur, calls, fan, ncalls >>

(***************************************************************************)
(* Node selection, and the other Node calls.                               *)
(***************************************************************************)
\* A slip: the key given is not looked at.
ChosenAtRandom(pubkey) == Nodes

\* The nodes a call may act on: the one with the key, or any at random.
Chosen(pubkey) == IF pubkey = None THEN Nodes ELSE FindNode(Unwrap(pubkey))

PaymentAddrBytes == << << 16, 32 >>, << 255, 255 >> >>

\* The hash LND gives its next invoice: one no backend has used.
FreshHashes == {i \in HashIds : \A n \in Nodes : ledger[n][i] = "none"}

\* LndClient::add_invoice: [res, made], made being the invoice LND created.
LndAddInvoice(n) ==
    {[res |-> Err("UpstreamRequestFailed"), made |-> None]}
    \cup {[res |-> Ok([r_hash |-> EncodeAs(enc, HashBytes[i]),
                       payment_addr |-> EncodeAs(enc, PaymentAddrBytes[i])]),
           made |-> Some(i)] :
            enc \in Encodings, i \in IF FreshHashes = {} THEN {} ELSE {Min(FreshHashes)}}

\* Node::add_invoice of a node with an Lnd client.
NodeAddInvoice(n) ==
    {[res |-> IF o.res.st # "ok" THEN o.res
              ELSE LET r_hash == to_hex(o.res.val.r_hash)
                       payment_addr == to_hex(o.res.val.payment_addr)
                   IN  IF ~r_hash.ok \/ ~payment_addr.ok THEN Err("EncodingError")
                       ELSE Ok([r_hash |-> r_hash.val, payment_addr |-> payment_addr.val]),
      made |-> o.made] : o \in LndAddInvoice(n)}

\* Cluster::add_invoice
AddInvoice(pubkey) ==
    /\ pc = "ready"
    /\ ncalls < MaxCalls
    /\ ncalls' = ncalls + 1
    /\ cur' = Call("add_invoice", << >>, pubkey)
    /\ writes' = << >>
    /\ IF Chosen(pubkey) = {}
       THEN /\ Abort
            /\ calls' = << >>
            /\ UNCHANGED ledger
       ELSE \E n \in Chosen(pubkey) :
              IF nodes[n].client # "Lnd"
              THEN /\ Abort
                   /\ calls' = << >>
                   /\ UNCHANGED ledger
              ELSE \E o \in NodeAddInvoice(n) :
                     /\ calls' = << BackendCall(n, "AddInvoice") >>
                     /\ ledger' = IF o.made = None THEN ledger
                                  ELSE [ledger EXCEPT ![n][Unwrap(o.made)] = "OPEN"]
                     /\ Return(o.res)
    /\ added' = IF pubkey = None /\ ret'.st = "ok"
                THEN added \cup {ret'.val.r_hash} ELSE added
    /\ UNCHANGED << other, now, nodes, wallet, addrs, cache, fan, loop, looked, failed, paid >>

\* The k-th address of node n's wallet.
Address(n, k) == << "t", "b", HexDigits[n + 1], HexDigits[k + 1] >>

\* A Redis value that is plain text, not JSON.
RawText(v) == [json |-> "text", data |-> v]

\* A slip: the expiry of the invoice entries is passed.
AddrTtlOfInvoice == InvExpSec

\* self.addr_exp_sec as usize, the expiry next_address gives its cache entries.
AddrTtl == AddrExpSec

\* Cluster::next_address
NextAddress(pubkey) ==
    /\ pc = "ready"
    /\ ncalls < MaxCalls
    /\ ncalls' = ncalls + 1
    /\ cur' = Call("next_address", << >>, pubkey)
    /\ IF Chosen(pubkey) = {}
       THEN /\ Abort
            /\ calls' = << >> /\ writes' = << >>
            /\ UNCHANGED << cache, addrs >>
       ELSE \E n \in Chosen(pubkey) :
              IF nodes[n].client # "Lnd"
              THEN /\ Abort
                   /\ calls' = << >> /\ writes' = << >>
                   /\ UNCHANGED << cache, addrs >>
              ELSE /\ calls' = << BackendCall(n, "NewAddress") >>
                   /\ \/ /\ Return(Err("UpstreamRequestFailed"))
                         /\ writes' = << >>
                         /\ UNCHANGED << cache, addrs >>
                      \/ /\ addrs[n] < MaxAddr
                         /\ addrs' = [addrs EXCEPT ![n] = @ + 1]
                         /\ LET addr == Address(n, addrs[n] + 1)
                            IN  \E accepted \in BOOLEAN :
                                  /\ cache' = SetEx(addr, RawText(nodes[n].pubkey),
                                                    AddrTtl, accepted)
                                  /\ writes' = << CacheWrite(addr, AddrTtl, accepted) >>
                                  /\ Return(Ok(addr))
    /\ UNCHANGED << other, now, nodes, ledger, wallet, fan, loop, history >>

\* A slip: one key for the outputs of every node.
UtxoKeyShared(pubkey) == << "u", "t", "x", "o", "s", ":" >>

\* format!("utxos:{}", node.pubkey)
UtxoKey(pubkey) == << "u", "t", "x", "o", "s", ":" >> \o pubkey

\* str::parse::<u64> of a decimal text.
RECURSIVE ParseDigits(_, _)
ParseDigits(str, sofar) ==
    IF str = << >> THEN [ok |-> TRUE, val |-> sofar]
    ELSE IF \E d \in 1..10 : HexDigits[d] = Head(str)
         THEN ParseDigits(Tail(str),
                          10 * sofar + (CHOOSE d \in 1..10 : HexDigits[d] = Head(str)) - 1)
         ELSE [ok |-> FALSE]

ParseU64(str) == IF str = << >> THEN [ok |-> FALSE] ELSE ParseDigits(str, 0)

\* u64::to_string
RECURSIVE ToDecimal(_)
ToDecimal(n) ==
    IF n < 10 THEN << HexDigits[n + 1] >>
    ELSE ToDecimal(n \div 10) \o << HexDigits[(n % 10) + 1] >>

\* LndClient::list_unspent: the wallet's outputs, numbers as decimal text.
LndListUnspent(n) ==
    {Err("UpstreamRequestFailed"),
     Ok([k \in 1..wallet[n] |->
           [address |-> Address(n, 8 + k), amount_sat |-> ToDecimal(500 * k),
            confirmations |-> ToDecimal(k)]])}

\* Node::list_utxos of a node with an Lnd client; a number that does not
\* parse panics.
NodeListUtxos(n) ==
    {IF r.st # "ok" THEN r
     ELSE IF \E k \in DOMAIN r.val : \/ ~ParseU64(r.val[k].amount_sat).ok
                                     \/ ~ParseU64(r.val[k].confirmations).ok
          THEN Panicked
          ELSE Ok([k \in DOMAIN r.val |->
                     [pubkey |-> nodes[n].pubkey,
                      address |-> r.val[k].address,
                      amount |-> ParseU64(r.val[k].amount_sat).val,
                      confirmations |-> ParseU64(r.val[k].confirmations).val]]) :
        r \in LndListUnspent(n)}

\* A slip: the expiry of the address entries is passed.
UtxoTtlOfAddress == AddrExpSec

\* self.utxo_exp_sec as usize, the expiry list_utxos gives its cache entries.
UtxoTtl == UtxoExpSec

\* A slip: the node's outputs are put before those of the nodes visited.
ExtendAtFront(utxos, node_utxos) == node_utxos \o utxos

\* cluster_utxos.utxos.extend(node_utxos.utxos)
Extend(utxos, node_utxos) == utxos \o node_utxos

\* One node's UTXO set as list_utxos obtains it, from the cache or from the
\* node: [res, calls, writes, cache], cache being the keyspace afterwards.
NodeUtxos(n) ==
    LET cache_key == UtxoKey(nodes[n].pubkey)
        Outcome(res, c, w, ks) == [res |-> res, calls |-> c, writes |-> w, cache |-> ks]
        call == << BackendCall(n, "ListUnspent") >>
    IN  UNION {
          IF got.res = "err" THEN {Outcome(Err("CacheError"), << >>, << >>, cache)}
          ELSE IF got.res = "data" THEN
              {Outcome(IF got.doc.json = "ClusterUtxos" THEN Ok(got.doc.data) ELSE Panicked,
                       << >>, << >>, AfterGet(cache_key))}
          ELSE IF nodes[n].client # "Lnd" THEN {Outcome(Panicked, << >>, << >>, cache)}
          ELSE UNION {
                 IF utxos.st # "ok" THEN {Outcome(utxos, call, << >>, cache)}
                 ELSE {Outcome(utxos, call, << CacheWrite(cache_key, UtxoTtl, accepted) >>,
                               SetEx(cache_key, ToJson("ClusterUtxos", utxos.val),
                                     UtxoTtl, accepted)) : accepted \in BOOLEAN} :
                 utxos \in NodeListUtxos(n)} :
          got \in CacheGet(cache_key)}

\* The call ends with result: a return, or a panic.
Finish(result) ==
    /\ pc' = IF result.st = "panic" THEN "aborted" ELSE "ready"
    /\ ret' = result

\* list_utxos: no node has the key given.
UtxosNodeMissing == Return(Err("NodeNotFound"))

\* Cluster::list_utxos with a public key.
ListUtxosOf(pubkey) ==
    /\ pc = "ready"
    /\ ncalls < MaxCalls
    /\ ncalls' = ncalls + 1
    /\ cur' = Call("list_utxos", << >>, Some(pubkey))
    /\ IF FindNode(pubkey) = None
       THEN /\ UtxosNodeMissing
            /\ calls' = << >> /\ writes' = << >>
            /\ UNCHANGED cache
       ELSE \E o \in NodeUtxos(Unwrap(FindNode(pubkey))) :
              /\ Finish(o.res)
              /\ calls' = o.calls
              /\ writes' = o.writes
              /\ cache' = o.cache
    /\ UNCHANGED << other, world, fan, loop, history >>

\* Cluster::list_utxos without a public key, up to the loop.
ListUtxosAll ==
    /\ pc = "ready"
    /\ ncalls < MaxCalls
    /\ ncalls' = ncalls + 1
    /\ cur' = Call("list_utxos", << >>, None)
    /\ pc' = "utxos"
    /\ ret' = InFlight
    /\ idx' = 1
    /\ acc' = << >>
    /\ calls' = << >> /\ writes' = << >>
    /\ UNCHANGED << other, world, fan, cache, history >>

\* A slip: a node whose outputs are not obtained is passed over.
VisitSkipped(result) ==
    IF idx = NumNodes
    THEN /\ Return(Ok(acc))
         /\ UNCHANGED loop
    ELSE /\ idx' = idx + 1
         /\ UNCHANGED << acc, pc, ret >>

\* A slip: after a failure the loop starts over at the first node.
VisitRetried(result) ==
    /\ idx' = 1
    /\ acc' = << >>
    /\ UNCHANGED << pc, ret >>

\* `?` in the loop: the failure of one node ends list_utxos(None).
VisitFailed(result) ==
    /\ Finish(result)
    /\ UNCHANGED loop

\* One turn of the loop over self.nodes; the last one returns.
UtxosVisit ==
    /\ pc = "utxos"
    /\ \E o \in NodeUtxos(idx) :
         /\ calls' = calls \o o.calls
         /\ writes' = writes \o o.writes
         /\ cache' = o.cache
         /\ IF o.res.st # "ok"
            THEN VisitFailed(o.res)
            ELSE /\ acc' = Extend(acc, o.res.val)
                 /\ IF idx = NumNodes
                    THEN /\ Return(Ok(acc'))
                         /\ UNCHANGED idx
                    ELSE /\ idx' = idx + 1
                         /\ UNCHANGED << pc, ret >>
    /\ UNCHANGED << other, world, fan, cur, ncalls, history >>

\* A slip: the node is unwrapped, as the other calls do.
PayNodeUnwrapped == Abort

\* pay_invoice: no node has the key given.
PayNodeMissing == Return(Err("NodeNotFound"))

\* LndClient::send_payment_sync: the request fails and the unwrap panics, or
\* LND answers with an error, or with the hash and preimage of the payment.
LndSendPaymentSync(n, i) ==
    {Panicked,
     Ok([payment_error |-> Some("no_route"), payment_preimage |-> None,
         payment_hash |-> None])}
    \cup {LET payment_hash == to_hex(EncodeAs(enc, HashBytes[i]))
              payment_preimage == to_hex(EncodeAs(enc, PreimageBytes[i]))
          IN  IF ~payment_hash.ok \/ ~payment_preimage.ok THEN Err("EncodingError")
              ELSE Ok([payment_error |-> None,
                       payment_preimage |-> Some(payment_preimage.val),
                       payment_hash |-> Some(payment_hash.val)]) :
          enc \in Encodings}

\* LndSendPaymentSyncRes::to_cluster
PaymentToCluster(r, pubkey) ==
    IF r.st # "ok" THEN r
    ELSE Ok([pubkey |-> pubkey, payment_error |-> r.val.payment_error,
             payment_preimage |-> r.val.payment_preimage,
             payment_hash |-> r.val.payment_hash])

\* A payment request for the invoice with hash i.
PaymentRequest(i) == << "l", "n", HexDigits[i + 1] >>

\* A slip: the amount is passed as the fee limit as well.
SendPaymentReqOfAmount(amount, payment_request, max_fee) ==
    [payment_request |-> payment_request,
     amt |-> ToDecimal(amount),
     fee_limit |-> ToDecimal(amount),
     allow_self_payment |-> FALSE]

\* The LndSendPaymentSyncReq pay_invoice builds from its arguments.
SendPaymentReq(amount, payment_request, max_fee) ==
    [payment_request |-> payment_request,
     amt |-> ToDecimal(amount),
     fee_limit |-> ToDecimal(max_fee),
     allow_self_payment |-> FALSE]

\* Cluster::pay_invoice
PayInvoice(amount, i, max_fee, pubkey) ==
    /\ pc = "ready"
    /\ ncalls < MaxCalls
    /\ ncalls' = ncalls + 1
    /\ cur' = Call("pay_invoice", PaymentRequest(i), pubkey)
    /\ writes' = << >>
    /\ IF Chosen(pubkey) = {}
       THEN /\ PayNodeMissing
            /\ calls' = << >>
            /\ UNCHANGED paid
       ELSE \E n \in Chosen(pubkey) :
              IF nodes[n].client # "Lnd"
              THEN /\ Abort
                   /\ calls' = << >>
                   /\ UNCHANGED paid
              ELSE /\ calls' = << [node |-> n, rpc |-> "SendPayment",
                                   req |-> SendPaymentReq(amount, PaymentRequest(i),
                                                          max_fee)] >>
                   /\ paid' = Append(paid, cur')
                   /\ \E r \in LndSendPaymentSync(n, i) :
                        Finish(PaymentToCluster(r, nodes[n].pubkey))
    /\ UNCHANGED << other, world, cache, fan, loop, looked, failed, added >>

(***************************************************************************)
(* The environment.                                                        *)
(***************************************************************************)
Tick ==
    /\ pc # "aborted"
    /\ now < MaxTime
    /\ now' = now + 1
    /\ UNCHANGED << cache, nodes, ledger, wallet, addrs, pc, cur, ret, calls, writes,
                    fan, loop, ncalls, history, other >>

\* An open invoice is paid.
Settle(n, i) ==
    /\ pc # "aborted"
    /\ ledger[n][i] = "OPEN"
    /\ ledger' = [ledger EXCEPT ![n][i] = "SETTLED"]
    /\ UNCHANGED << now, cache, nodes, wallet, addrs, pc, cur, ret, calls, writes,
                    fan, loop, ncalls, history, other >>

\* Node n is given an invoice of a hash another node holds, by its operator.
Copy(n, i) ==
    /\ pc # "aborted"
    /\ ledger[n][i] = "none"
    /\ \E m \in Nodes : ledger[m][i] # "none"
    /\ ledger' = [ledger EXCEPT ![n][i] = "OPEN"]
    /\ UNCHANGED << now, cache, nodes, wallet, addrs, pc, cur, ret, calls, writes,
                    fan, loop, ncalls, history, other >>

\* A wallet receives an output.
Deposit(n) ==
    /\ pc # "aborted"
    /\ wallet[n] < MaxUtxo
    /\ wallet' = [wallet EXCEPT ![n] = @ + 1]
    /\ UNCHANGED << now, cache, nodes, ledger, addrs, pc, cur, ret, calls, writes,
                    fan, loop, ncalls, history, other >>

\* The arguments callers pass.
PubkeyArgs == {None, Some(UnknownPubkey)} \cup {Some(Pubkey(n)) : n \in Nodes}
Amounts == {1000}
Fees == {10}

(***************************************************************************)
(* A second lookup_invoice, in flight at the same time on the same cache.  *)
(* lookup_invoice takes &mut self, so it is the call of another Cluster    *)
(* value that has a connection to the same Redis and the same nodes.       *)
(***************************************************************************)
\* No second request has been made.
OtherIdle ==
    [pc |-> "idle", key |-> << >>, ret |-> InFlight, calls |-> << >>, writes |-> << >>,
     pending |-> {}, answers |-> << >>]

\* All but the second request.
first == << world, cache, pc, cur, ret, calls, writes, fan, loop, ncalls, history >>

\* Cluster::lookup_invoice(r_hash, None) of the second request, up to its
\* first suspension in the fan-out.
OtherLookupInvoice(r_hash) ==
    /\ other.pc = "idle"
    /\ \/ /\ [res |-> "err"] \in CacheGet(r_hash)
          /\ other' = [other EXCEPT !.pc = "ready", !.key = r_hash,
                                     !.ret = Err("CacheError")]
       \/ \E got \in CacheGet(r_hash) :
            /\ got.res = "data"
            /\ other' = IF got.doc.json = "ClusterLookupInvoice"
                        THEN [other EXCEPT !.pc = "ready", !.key = r_hash,
                                           !.ret = Ok(got.doc.data)]
                        ELSE [other EXCEPT !.pc = "aborted", !.key = r_hash,
                                           !.ret = Panicked]
       \/ /\ [res |-> "nil"] \in CacheGet(r_hash)
          /\ LET bad == {n \in Nodes : nodes[n].client # "Lnd"}
                 issued == IF bad = {} THEN Nodes ELSE 1..(Min(bad) - 1)
             IN  other' = IF bad = {}
                          THEN [other EXCEPT !.pc = "fanout", !.key = r_hash,
                                             !.calls = FanOutTasks(issued),
                                             !.pending = Nodes]
                          ELSE [other EXCEPT !.pc = "aborted", !.key = r_hash,
                                             !.calls = FanOutTasks(issued),
                                             !.ret = Panicked]
    /\ UNCHANGED first

\* One task of the second request's fan-out completes.
OtherFanOutAnswer(n) ==
    /\ other.pc = "fanout"
    /\ n \in other.pending
    /\ \E invoice \in NodeLookupInvoice(n, other.key) :
         other' = [other EXCEPT
                     !.answers = [m \in DOMAIN other.answers \cup {n} |->
                                    IF m = n THEN invoice ELSE other.answers[m]],
                     !.pending = other.pending \ {n}]
    /\ UNCHANGED first

\* join_all of the second request has every result: the rest of its
\* lookup_invoice.
OtherFanOutJoin ==
    /\ other.pc = "fanout"
    /\ other.pending = {}
    /\ LET success_result == FirstSuccess(other.answers)
       IN  IF success_result = None
           THEN /\ other' = [other EXCEPT !.pc = "ready", !.ret = Err("AllNodesFailed")]
                /\ UNCHANGED cache
           ELSE LET hexed_invoice == HexedInvoice(Unwrap(success_result))
                IN  IF hexed_invoice.st # "ok"
                    THEN /\ other' = [other EXCEPT !.pc = "ready", !.ret = hexed_invoice]
                         /\ UNCHANGED cache
                    ELSE \E accepted \in BOOLEAN :
                           /\ cache' = SetEx(other.key,
                                  JsonInvoice(Unwrap(success_result), hexed_invoice.val),
                                  InvoiceTtl, accepted)
                           /\ other' = [other EXCEPT
                                  !.pc = "ready", !.ret = hexed_invoice,
                                  !.writes = << CacheWrite(other.key, InvoiceTtl,
                                                           accepted) >>]
    /\ UNCHANGED << world, pc, cur, ret, calls, writes, fan, loop, ncalls, history >>

\* The invoices of the backends at the start: the first node has the first
\* hash, open, and the second node has none or an invoice of the same hash in
\* the state copy.
Ledger(copy) ==
    [n \in Nodes |-> [i \in HashIds |-> IF i # 1 \/ n > 2 THEN "none"
                                       ELSE IF n = 1 THEN "OPEN" ELSE copy]]

Init ==
    /\ now = 0
    /\ cache = << >>
    /\ nodes \in [Nodes -> {[pubkey |-> Pubkey(n), client |-> c] :
                              n \in Nodes, c \in ClientKinds}]
    /\ \A n \in Nodes : nodes[n].pubkey = Pubkey(n)
    /\ ledger \in {Ledger(copy) : copy \in {"none", "SETTLED"}}
    /\ wallet = [n \in Nodes |-> IF n = 1 THEN 1 ELSE 0]
    /\ addrs = [n \in Nodes |-> 0]
    /\ pc = "ready"
    /\ cur = Call("none", << >>, None)
    /\ ret = InFlight
    /\ calls = << >>
    /\ writes = << >>
    /\ pending = {}
    /\ answers = << >>
    /\ order = << >>
    /\ idx = 1
    /\ acc = << >>
    /\ ncalls = 0
    /\ looked = [h \in HashKeys |-> None]
    /\ failed = {}
    /\ added = {}
    /\ paid = << >>
    /\ other = OtherIdle

\* The cluster and the clock.
Next ==
    \/ \E r_hash \in HashKeys, pubkey \in PubkeyArgs : LookupInvoice(r_hash, pubkey)
    \/ \E n \in Nodes : FanOutAnswer(n)
    \/ FanOutJoin
    \/ \E pubkey \in PubkeyArgs : AddInvoice(pubkey)
    \/ \E pubkey \in PubkeyArgs : NextAddress(pubkey)
    \/ \E pubkey \in PubkeyArgs \ {None} : ListUtxosOf(Unwrap(pubkey))
    \/ ListUtxosAll
    \/ UtxosVisit
    \/ \E amount \in Amounts, i \in HashIds, max_fee \in Fees, pubkey \in PubkeyArgs :
          PayInvoice(amount, i, max_fee, pubkey)
    \/ Tick

Spec == Init /\ [][Next]_vars

\* The invoice calls, with invoices being paid meanwhile.
NextInvoice ==
    \/ \E r_hash \in HashKeys, pubkey \in PubkeyArgs : LookupInvoice(r_hash, pubkey)
    \/ \E n \in Nodes : FanOutAnswer(n)
    \/ FanOutJoin
    \/ \E pubkey \in PubkeyArgs : AddInvoice(pubkey)
    \/ Tick
    \/ \E n \in Nodes, i \in HashIds : Settle(n, i)

SpecInvoice == Init /\ [][NextInvoice]_vars

\* The UTXO calls, with wallets receiving outputs meanwhile.
NextUtxo ==
    \/ \E pubkey \in PubkeyArgs \ {None} : ListUtxosOf(Unwrap(pubkey))
    \/ ListUtxosAll
    \/ UtxosVisit
    \/ Tick
    \/ \E n \in Nodes : Deposit(n)

SpecUtxo == Init /\ [][NextUtxo]_vars

\* Invoices added through the cluster and held by several nodes, looked up
\* without owner.
NextShared ==
    \/ \E r_hash \in HashKeys : LookupInvoice(r_hash, None)
    \/ \E n \in Nodes : FanOutAnswer(n)
    \/ FanOutJoin
    \/ \E pubkey \in PubkeyArgs : AddInvoice(pubkey)
    \/ \E n \in Nodes, i \in HashIds : Copy(n, i)
    \/ Tick

SpecShared == Init /\ [][NextShared]_vars

\* The keys next_address writes: the addresses of the wallets.
AddressKeys == {Address(n, k) : n \in Nodes, k \in 1..MaxAddr}
\* The keys list_utxos reads and writes.
UtxoKeys == {UtxoKey(Pubkey(n)) : n \in Nodes}
\* The texts a caller passes as r_hash: lookup_invoice takes any &str and
\* reads the cache under it as it is.
LookupKeys == HashKeys \cup AddressKeys \cup UtxoKeys

\* The calls that use the cache, a lookup being passed any text as its hash.
NextKeys ==
    \/ \E r_hash \in LookupKeys, pubkey \in PubkeyArgs : LookupInvoice(r_hash, pubkey)
    \/ \E n \in Nodes : FanOutAnswer(n)
    \/ FanOutJoin
    \/ \E pubkey \in PubkeyArgs : NextAddress(pubkey)
    \/ \E pubkey \in PubkeyArgs \ {None} : ListUtxosOf(Unwrap(pubkey))
    \/ Tick

SpecKeys == Init /\ [][NextKeys]_vars

\* Lookups without owner, with a second one in flight at the same time.
NextConcurrent ==
    \/ \E r_hash \in HashKeys : LookupInvoice(r_hash, None)
    \/ \E n \in Nodes : FanOutAnswer(n)
    \/ FanOutJoin
    \/ \E r_hash \in HashKeys : OtherLookupInvoice(r_hash)
    \/ \E n \in Nodes : OtherFanOutAnswer(n)
    \/ OtherFanOutJoin
    \/ Tick

SpecConcurrent == Init /\ [][NextConcurrent]_vars

\* The invoice calls when every backend call and every cache call completes:
\* a task of a fan-out that is outstanding completes, and a fan-out whose
\* tasks have completed is joined.
SpecFair ==
    /\ SpecInvoice
    /\ WF_vars(\E n \in Nodes : FanOutAnswer(n))
    /\ WF_vars(FanOutJoin)

(***************************************************************************)
(* Properties.                                                             *)
(***************************************************************************)
\* The step is the start of a call of op.
Starts(op) == ncalls' = ncalls + 1 /\ cur'.op = op

\* The step is the start of a lookup_invoice of the hash text h.
LookupStarts(h) == Starts("lookup_invoice") /\ cur'.key = h

\* C1 as stated: once a lookup of h that went to the nodes has succeeded, a
\* lookup of h before the invoice expiry has elapsed returns the same invoice
\* and calls no backend.
C1_SecondLookupIsHit ==
    [][\A h \in HashKeys :
         (/\ looked[h] # None
          /\ now < Unwrap(looked[h]).at + InvExpSec
          /\ LookupStarts(h))
         => (ret' = Ok(Unwrap(looked[h]).val) /\ calls' = << >>)]_vars

\* C1: once a lookup of h that went to the nodes has succeeded and the cache
\* has stored what it wrote, a lookup of h before the invoice expiry has
\* elapsed calls no backend and returns the same invoice, unless the read of
\* the cache fails, which the lookup returns as its failure.
C1_StoredLookupIsHit ==
    [][\A h \in HashKeys :
         (/\ looked[h] # None
          /\ Unwrap(looked[h]).stored
          /\ now < Unwrap(looked[h]).at + InvExpSec
          /\ LookupStarts(h))
         => (/\ ret' \in {Ok(Unwrap(looked[h]).val), Err("CacheError")}
             /\ calls' = << >>)]_vars

\* C1 happens: the second call is a lookup answered from the cache with the
\* invoice an earlier lookup fetched from a node, later on the clock.
C1_Witness ==
    /\ ncalls = 2 /\ pc = "ready"
    /\ cur.op = "lookup_invoice"
    /\ looked[cur.key] # None
    /\ Unwrap(looked[cur.key]).at < now
    /\ calls = << >>
    /\ ret = Ok(Unwrap(looked[cur.key]).val)

\* The cache holds an entry under key that a read now must return.
Holds(key) == key \in DOMAIN cache /\ now < cache[key].exp

\* The step is the join of a fan-out in which no node returned an invoice.
JoinsFailed == pc = "fanout" /\ pc' = "ready" /\ \A n \in Nodes : answers[n].st # "ok"

\* The step is the join of a fan-out in which a node returned an invoice.
JoinsFound == pc = "fanout" /\ pc' = "ready" /\ \E n \in Nodes : answers[n].st = "ok"

\* Every invoice the fan-out's nodes returned has a hash and a preimage that
\* to_hex decodes.
AnswersDecode ==
    \A n \in Nodes : answers[n].st = "ok" => HexedInvoice(answers[n].val).st = "ok"

\* The backend calls of a fan-out: one LookupInvoice on every node.
FanOutCalls == [n \in Nodes |-> BackendCall(n, "LookupInvoice")]

\* The step starts lookup_invoice(h, None) after a fan-out for h found no
\* node, h never having been found.
Retries(h) ==
    h \in failed /\ looked[h] = None /\ LookupStarts(h) /\ cur'.pubkey = None

\* C2 as stated: a fan-out in which every node fails returns AllNodesFailed
\* and leaves no entry for h; a later lookup_invoice(h, None) queries every
\* node again, and succeeds if a node returns the invoice.
C2_RetryResolves ==
    [][/\ JoinsFailed => (ret' = Err("AllNodesFailed") /\ ~Holds(cur.key)')
       /\ \A h \in HashKeys :
            Retries(h) => (pc' = "fanout" /\ calls' = FanOutCalls)
       /\ (JoinsFound /\ cur.key \in failed) => ret'.st = "ok"]_vars

\* C2: a fan-out in which every node fails returns AllNodesFailed, writes
\* nothing and leaves no entry for h; a later lookup_invoice(h, None) is never
\* answered from the cache: it fails on the read of the cache or queries every
\* node again, and then succeeds if a node returns the invoice with a hash
\* and a preimage that to_hex decodes.
C2_NoNegativeCaching ==
    [][/\ JoinsFailed => (/\ ret' = Err("AllNodesFailed")
                          /\ writes' = << >> /\ cache' = cache
                          /\ ~Holds(cur.key)')
       /\ \A h \in HashKeys :
            Retries(h) => \/ pc' = "fanout" /\ calls' = FanOutCalls
                          \/ ret' = Err("CacheError") /\ calls' = << >>
       /\ (JoinsFound /\ cur.key \in failed /\ AnswersDecode) => ret'.st = "ok"]_vars

\* C2 happens: the second call is a lookup without owner of a hash that a
\* fan-out found on no node, and it has queried every node and succeeded.
C2_Witness ==
    /\ ncalls = 2 /\ pc = "ready"
    /\ cur = Call("lookup_invoice", cur.key, None)
    /\ cur.key \in failed
    /\ calls = FanOutCalls
    /\ ret.st = "ok"

\* The calls of the cluster.
Operations == {"lookup_invoice", "add_invoice", "next_address", "list_utxos", "pay_invoice"}

\* pubkey is given and is the key of no configured node.
Unconfigured(pubkey) == pubkey # None /\ FindNode(Unwrap(pubkey)) = None

\* The call was a lookup_invoice that the cache answered, with an invoice or
\* with its failure, before any node was to be resolved.
AnsweredByCache ==
    cur.op = "lookup_invoice" /\ calls = << >> /\ (ret.st = "ok" \/ ret = Err("CacheError"))

\* C3 as stated: a call with a public key that no configured node has, once
\* it comes to resolve the node, returns NodeNotFound and has called no
\* backend.
C3_UnconfiguredIsNodeNotFound ==
    (cur.op \in Operations /\ Unconfigured(cur.pubkey) /\ ~AnsweredByCache)
    => (ret = Err("NodeNotFound") /\ calls = << >>)

\* The canonical text of bytes.
Canonical(bytes) == HexEncode(bytes)

\* invoice is the invoice with hash number i, hash and preimage canonical.
IsCanonical(invoice, i) ==
    /\ invoice.r_hash = Canonical(HashBytes[i])
    /\ invoice.r_preimage = Canonical(PreimageBytes[i])

\* C5 as stated: the invoice lookup_invoice returns for a hash, and the one
\* the cache holds under it, have the hash and the preimage in canonical hex.
C5_HashesAreCanonicalHex ==
    \A i \in HashIds :
        /\ (cur.op = "lookup_invoice" /\ cur.key = HashKey(i) /\ ret.st = "ok")
           => IsCanonical(ret.val, i)
        /\ HashKey(i) \in DOMAIN cache => IsCanonical(cache[HashKey(i)].val.data, i)

\* C8: pay_invoice with a public key that no configured node has returns
\* NodeNotFound, calls no backend and leaves the cache as it is.
C8_PayUnconfiguredIsNodeNotFound ==
    [][(Starts("pay_invoice") /\ Unconfigured(cur'.pubkey))
       => (/\ ret' = Err("NodeNotFound")
           /\ calls' = << >>
           /\ writes' = << >>
           /\ cache' = cache)]_vars

\* C8 happens: with an entry in the cache, the second call is a pay_invoice
\* with an unconfigured key, and it has returned NodeNotFound.
C8_Witness ==
    /\ ncalls = 2 /\ pc = "ready"
    /\ cur.op = "pay_invoice" /\ Unconfigured(cur.pubkey)
    /\ cache # << >>
    /\ ret = Err("NodeNotFound")

\* The call names a configured node whose client is not Lnd.
ChoseUnsupported ==
    /\ cur.pubkey # None
    /\ FindNode(Unwrap(cur.pubkey)) # None
    /\ nodes[Unwrap(FindNode(Unwrap(cur.pubkey)))].client # "Lnd"

\* C9 as stated: a call on a node whose client is not Lnd does not abort the
\* process, and add_invoice, next_address and pay_invoice, which go to the
\* node whatever the cache holds, return UnsupportedImplementation.
C9_UnsupportedIsRecoverable ==
    (cur.op \in Operations /\ ChoseUnsupported)
    => (/\ pc # "aborted"
        /\ cur.op \in {"add_invoice", "next_address", "pay_invoice"}
           => ret = Err("UnsupportedImplementation"))

\* The keyspace ks holds doc under key, written now with the expiry seconds.
Cached(ks, key, doc, seconds) ==
    /\ key \in DOMAIN ks
    /\ ks[key] = [val |-> doc, at |-> now, exp |-> now + seconds]

\* C4 as stated: a fan-out in which a node returns an invoice returns, as
\* success, the invoice of such a node, and the cache then holds that invoice
\* under h.
C4_FanOutFindsAndCaches ==
    [][JoinsFound =>
         /\ \E n \in Nodes : answers[n].st = "ok" /\ ret' = HexedInvoice(answers[n].val)
         /\ ret'.st = "ok"
         /\ Cached(cache', cur.key, ToJson("ClusterLookupInvoice", ret'.val), InvExpSec)]_vars

\* C4: a fan-out in which a node returns an invoice, the invoices returned
\* having hashes and preimages that to_hex decodes, returns as success the
\* invoice of such a node and writes it to the cache under h; the cache then
\* holds that invoice under h if it has stored the write.
C4_FanOutFindsAndWrites ==
    [][(JoinsFound /\ AnswersDecode) =>
         /\ \E n \in Nodes : answers[n].st = "ok" /\ ret' = HexedInvoice(answers[n].val)
         /\ ret'.st = "ok"
         /\ Len(writes') = 1 /\ writes'[1].key = cur.key
         /\ writes'[1].stored
            => Cached(cache', cur.key, ToJson("ClusterLookupInvoice", ret'.val), InvExpSec)
         /\ ~writes'[1].stored => cache' = cache]_vars

\* C4 happens: a lookup without owner has returned an invoice that one node
\* returned while another failed, and the cache holds it.
C4_Witness ==
    /\ pc = "ready"
    /\ cur.op = "lookup_invoice" /\ cur.pubkey = None
    /\ DOMAIN answers = Nodes
    /\ \E n, m \in Nodes : answers[n].st = "ok" /\ answers[m].st = "err"
    /\ ret.st = "ok"
    /\ Cached(cache, cur.key, ToJson("ClusterLookupInvoice", ret.val), InvExpSec)

\* The step is a turn of the loop of list_utxos(None).
Visits == pc = "utxos" /\ (idx' # idx \/ pc' # "utxos")

\* The turn obtained the node's outputs.
Obtained == pc' = "utxos" \/ ret'.st = "ok"

\* The outputs a ListUnspent of node n returns now.
Unspent(n) == {r.val : r \in {o \in NodeListUtxos(n) : o.st = "ok"}}

\* C6: an entry written at T with the expiry t of its kind is what a read
\* before T + t returns, the backend not being called, and a read after T + t
\* does not return it: lookup_invoice and list_utxos then go to the node. A
\* read is one the cache answers.
C6_EntriesExpire ==
    [][/\ \A h \in HashKeys :
            (LookupStarts(h) /\ h \in DOMAIN cache /\ ret' # Err("CacheError")) =>
               /\ now < cache[h].at + InvExpSec
                  => (ret' = Ok(cache[h].val.data) /\ calls' = << >>)
               /\ now > cache[h].at + InvExpSec
                  => ~(ret'.st = "ok" /\ calls' = << >>)
       /\ \A n \in Nodes :
            (/\ Starts("list_utxos") /\ cur'.pubkey = Some(nodes[n].pubkey)
             /\ UtxoKey(nodes[n].pubkey) \in DOMAIN cache
             /\ ret' # Err("CacheError")) =>
               LET entry == cache[UtxoKey(nodes[n].pubkey)]
               IN  /\ now < entry.at + UtxoExpSec
                      => (ret' = Ok(entry.val.data) /\ calls' = << >>)
                   /\ now > entry.at + UtxoExpSec
                      => ~(ret'.st = "ok" /\ calls' = << >>)
       /\ (/\ Visits
           /\ UtxoKey(nodes[idx].pubkey) \in DOMAIN cache
           /\ ret' # Err("CacheError")) =>
               LET entry == cache[UtxoKey(nodes[idx].pubkey)]
               IN  /\ now < entry.at + UtxoExpSec
                      => (acc' = acc \o entry.val.data /\ calls' = calls)
                   /\ now > entry.at + UtxoExpSec
                      => ~(Obtained /\ calls' = calls)]_vars

\* C6 happens: a lookup found the entry of its hash expired and went to the
\* node, which failed, the entry being there still.
C6_Witness ==
    /\ ncalls = 2 /\ pc = "ready"
    /\ cur.op = "lookup_invoice"
    /\ cur.key \in DOMAIN cache /\ cache[cur.key].exp < now
    /\ calls # << >>
    /\ ret = Err("UpstreamRequestFailed")

\* The turn took the node's outputs from the cache.
VisitFromCache(key) ==
    /\ key \in DOMAIN cache /\ now <= cache[key].exp
    /\ acc' = acc \o cache[key].val.data
    /\ calls' = calls /\ writes' = writes /\ cache' = cache

\* The turn fetched the node's outputs and wrote them to the cache.
VisitFetched(key) ==
    /\ ~Holds(key)
    /\ calls' = calls \o << BackendCall(idx, "ListUnspent") >>
    /\ \E fetched \in Unspent(idx) :
         /\ acc' = acc \o fetched
         /\ Len(writes') = Len(writes) + 1
         /\ writes'[Len(writes')].key = key
         /\ writes'[Len(writes')].stored
            => Cached(cache', key, ToJson("ClusterUtxos", fetched), UtxoExpSec)
         /\ ~writes'[Len(writes')].stored => cache' = cache

\* C7 as stated: list_utxos(None) starts from nothing at the first node, and
\* each turn that obtains the outputs of its node appends them, from the cache
\* without a call when the cache holds them, else from a ListUnspent whose
\* answer the cache holds afterwards; it returns what the last turn leaves.
C7_ConcatenatesAndCaches ==
    [][/\ (Starts("list_utxos") /\ cur'.pubkey = None)
          => (pc' = "utxos" /\ idx' = 1 /\ acc' = << >> /\ calls' = << >>)
       /\ Visits =>
            LET key == UtxoKey(nodes[idx].pubkey)
            IN  /\ Holds(key) => (Obtained /\ calls' = calls)
                /\ Obtained => (VisitFromCache(key) \/ (VisitFetched(key) /\ Holds(key)'))
                /\ pc' = "utxos" => idx' = idx + 1
                /\ (pc' = "ready" /\ ret'.st = "ok")
                   => (idx = NumNodes /\ ret' = Ok(acc'))]_vars

\* C7: list_utxos(None) starts from nothing at the first node, and each turn
\* that obtains the outputs of its node appends them, from the cache without a
\* call when the cache holds them, else from a ListUnspent whose answer it
\* writes to the cache, which holds it afterwards if it has stored the write;
\* a turn fails without a call when the read of the cache fails; the call
\* returns what the last turn leaves.
C7_ConcatenatesAndWrites ==
    [][/\ (Starts("list_utxos") /\ cur'.pubkey = None)
          => (pc' = "utxos" /\ idx' = 1 /\ acc' = << >> /\ calls' = << >>)
       /\ Visits =>
            LET key == UtxoKey(nodes[idx].pubkey)
            IN  /\ Holds(key) => /\ calls' = calls
                                 /\ Obtained \/ ret' = Err("CacheError")
                /\ Obtained => (VisitFromCache(key) \/ VisitFetched(key))
                /\ pc' = "utxos" => idx' = idx + 1
                /\ (pc' = "ready" /\ ret'.st = "ok")
                   => (idx = NumNodes /\ ret' = Ok(acc'))]_vars

\* C7 happens: list_utxos(None) has returned the outputs of the first node,
\* taken from the cache, followed by those of the second, fetched and cached.
C7_Witness ==
    /\ pc = "ready"
    /\ cur.op = "list_utxos" /\ cur.pubkey = None
    /\ ret.st = "ok"
    /\ calls = << BackendCall(2, "ListUnspent") >>
    /\ Len(writes) = 1 /\ writes[1].stored
    /\ \E k \in 1..(Len(ret.val) - 1) :
         /\ \A j \in 1..k : ret.val[j].pubkey = Pubkey(1)
         /\ \A j \in (k + 1)..Len(ret.val) : ret.val[j].pubkey = Pubkey(2)

\* C10 as stated: a call that has returned a failure has written no entry to
\* the cache.
C10_FailureWritesNothing ==
    (pc = "ready" /\ ret.st = "err")
    => \A w \in DOMAIN writes : ~writes[w].stored
\* The turn called the node's ListUnspent, which did not return its outputs:
\* no write to the cache follows the call.
FetchFailed ==
    /\ Visits
    /\ calls' = calls \o << BackendCall(idx, "ListUnspent") >>
    /\ writes' = writes

\* C11: in list_utxos(None), when the ListUnspent of a node whose outputs the
\* cache does not hold fails, the call returns UpstreamRequestFailed there and
\* then; a call that returns success has obtained the outputs of every node.
C11_FetchFailureFailsAll ==
    [][/\ FetchFailed
          => (pc' = "ready" /\ ret' = Err("UpstreamRequestFailed") /\ UNCHANGED loop)
       /\ (Visits /\ ret'.st = "ok")
          => (idx = NumNodes /\ Obtained /\ ~FetchFailed)]_vars

\* C11 happens: list_utxos(None) fetched the outputs of the first node, and
\* has returned the failure of the second node's ListUnspent.
C11_Witness ==
    /\ pc = "ready"
    /\ cur.op = "list_utxos" /\ cur.pubkey = None
    /\ calls = << BackendCall(1, "ListUnspent"), BackendCall(2, "ListUnspent") >>
    /\ acc # << >>
    /\ ret = Err("UpstreamRequestFailed")
\* C12 as stated, for a lookup in which a node returns the invoice with a
\* hash and a preimage that to_hex decodes: lookup_invoice(r, None) of a hash
\* r that add_invoice(req, None) has returned succeeds, and the invoice it
\* returns has r as its hash.
C12_AddedIsLookedUp ==
    [][(JoinsFound /\ cur.key \in added /\ AnswersDecode)
       => (ret'.st = "ok" /\ ret'.val.r_hash = cur.key)]_vars
\* The calls that choose their node by the key given.
OwnerOperations == {"add_invoice", "next_address", "list_utxos", "pay_invoice"}

\* The call was one of those, with the key of the configured node p.
CalledOn(p) == cur.op \in OwnerOperations /\ cur.pubkey = Some(nodes[p].pubkey)

\* Every backend call of the call went to node p.
OnlyCalled(p) == \A k \in DOMAIN calls : calls[k].node = p

\* The value val that op returned names owner: every ClusterUtxo and the
\* ClusterPayPaymentRequestRes have a pubkey; the address is a String.
Carries(op, val, owner) ==
    CASE op = "list_utxos" -> \A k \in DOMAIN val : val[k].pubkey = owner
      [] op = "pay_invoice" -> val.pubkey = owner
      [] op = "add_invoice" -> "pubkey" \in DOMAIN val /\ val.pubkey = owner
      [] OTHER -> FALSE

\* C13 as stated: a call of add_invoice, next_address, list_utxos or
\* pay_invoice with the key of a configured node p calls no backend but p's,
\* and what it returns carries p as owner.
C13_OwnerOnlyAndCarried ==
    \A p \in Nodes :
        CalledOn(p) =>
            /\ OnlyCalled(p)
            /\ ret.st = "ok" => Carries(cur.op, ret.val, nodes[p].pubkey)

\* C13: a call of add_invoice, next_address, list_utxos or pay_invoice with
\* the key of a configured node p calls no backend but p's; what list_utxos
\* and pay_invoice return carries p as owner, and the address next_address
\* returns is written to the cache with p as its value.
C13_OwnerOnly ==
    \A p \in Nodes :
        CalledOn(p) =>
            /\ OnlyCalled(p)
            /\ (ret.st = "ok" /\ cur.op \in {"list_utxos", "pay_invoice"})
               => Carries(cur.op, ret.val, nodes[p].pubkey)
            /\ (ret.st = "ok" /\ cur.op = "next_address")
               => /\ Len(writes) = 1 /\ writes[1].key = ret.val
                  /\ writes[1].stored => cache[ret.val].val = RawText(nodes[p].pubkey)

\* C13 happens: pay_invoice with the key of the second node has called that
\* node and no other, and has returned a result with that key.
C13_Witness ==
    /\ pc = "ready"
    /\ cur.op = "pay_invoice" /\ cur.pubkey = Some(nodes[2].pubkey)
    /\ Len(calls) = 1 /\ calls[1].node = 2
    /\ ret.st = "ok" /\ ret.val.pubkey = nodes[2].pubkey
\* The key given, if one is given, is that of a configured node.
Selects(pubkey) == Chosen(pubkey) # {}

\* The step's call went to one node, with the one request op.
CallsOnce(rpc) == Len(calls') = 1 /\ calls'[1].rpc = rpc

\* C14 as stated: a call of next_address issues exactly one NewAddress call
\* on the selected node, whatever the cache contains, and after a successful
\* allocation the cache holds the address with the node's key as its value and
\* the address expiry.
C14_AllocatesAndCaches ==
    [][(Starts("next_address") /\ Selects(cur'.pubkey))
       => /\ CallsOnce("NewAddress")
          /\ ret'.st = "ok"
             => Cached(cache', ret'.val, RawText(nodes[calls'[1].node].pubkey), AddrExpSec)]_vars

\* C14: a call of next_address that selects a node whose client is Lnd issues
\* exactly one NewAddress call, on that node, whatever the cache contains; a
\* node with another client is not called and the call aborts. After a
\* successful allocation the address is written once, with the node's key as
\* its value and the address expiry, and the cache holds it if it stored the
\* write; a failed allocation writes nothing.
C14_AllocatesAndWrites ==
    [][(Starts("next_address") /\ Selects(cur'.pubkey))
       => \/ /\ pc' = "aborted"
             /\ calls' = << >> /\ writes' = << >> /\ cache' = cache
             /\ \E n \in Chosen(cur'.pubkey) : nodes[n].client # "Lnd"
          \/ /\ pc' = "ready"
             /\ CallsOnce("NewAddress")
             /\ calls'[1].node \in Chosen(cur'.pubkey)
             /\ nodes[calls'[1].node].client = "Lnd"
             /\ IF ret'.st = "ok"
                THEN /\ ret'.val \notin DOMAIN cache
                     /\ Len(writes') = 1 /\ writes'[1].key = ret'.val
                     /\ IF writes'[1].stored
                        THEN Cached(cache', ret'.val,
                                    RawText(nodes[calls'[1].node].pubkey), AddrExpSec)
                        ELSE cache' = cache
                ELSE writes' = << >> /\ cache' = cache]_vars

\* C14 happens: with an address in the cache already, a second next_address
\* has called a node, and the address it returned is in the cache as well.
C14_Witness ==
    /\ pc = "ready" /\ ncalls = 2
    /\ cur.op = "next_address" /\ ret.st = "ok"
    /\ Len(calls) = 1 /\ calls[1].rpc = "NewAddress"
    /\ Len(writes) = 1 /\ writes[1].stored
    /\ \E a \in DOMAIN cache : a # ret.val /\ cache[a].val.json = "text"
\* The request of the step's backend call has the payment request of the
\* call, and an amount and a fee limit that read as the caller's.
PassedUnmodified ==
    \E amount \in Amounts, max_fee \in Fees :
        /\ calls'[1].req.payment_request = cur'.key
        /\ ParseU64(calls'[1].req.amt) = [ok |-> TRUE, val |-> amount]
        /\ ParseU64(calls'[1].req.fee_limit) = [ok |-> TRUE, val |-> max_fee]

ListsOf(n) == Starts("list_utxos") /\ cur'.pubkey = Some(nodes[n].pubkey)

\* The cache holds no entry under key, or one that has expired.
Lacks(key) == key \notin DOMAIN cache \/ now > cache[key].exp

\* Every output of the result is one of node n.
OutputsOf(n, result) ==
    result.st = "ok" => \A k \in DOMAIN result.val : result.val[k].pubkey = nodes[n].pubkey

\* C16 as stated: list_utxos with the key of a configured node n returns
\* the set the cache holds under the node's key without calling the node;
\* when the cache holds none it calls ListUnspent on the node once, and the
\* set it returns is then in the cache under the node's key with the UTXO
\* expiry.
C16_HitOrFetchAndCache ==
    [][\A n \in Nodes :
         LET key == UtxoKey(nodes[n].pubkey)
         IN  /\ (ListsOf(n) /\ Holds(key))
                => /\ calls' = << >>
                   /\ ret' = Ok(cache[key].val.data)
             /\ (ListsOf(n) /\ Lacks(key))
                => /\ calls' = << BackendCall(n, "ListUnspent") >>
                   /\ ret'.st = "ok"
                      => Cached(cache', key, ToJson("ClusterUtxos", ret'.val), UtxoExpSec)]_vars

\* C16: list_utxos with the key of a configured node n, the cache holding a
\* live set under the node's key, calls no node and returns that set, unless
\* the cache read fails. The cache holding none, and its read not failing, a
\* node whose client is Lnd is called once, with ListUnspent; a set obtained is
\* returned and written once under the node's key with the UTXO expiry, the
\* cache holding it if it stored the write; a failure is returned and nothing
\* is written. A node with another client is not called and the call aborts.
\* The outputs returned are the node's.
C16_HitOrFetchAndWrite ==
    [][\A n \in Nodes :
         LET key == UtxoKey(nodes[n].pubkey)
         IN  /\ ListsOf(n) => OutputsOf(n, ret')
             /\ (ListsOf(n) /\ Holds(key))
                => /\ calls' = << >> /\ writes' = << >> /\ cache' = cache
                   /\ ret' \in {Ok(cache[key].val.data), Err("CacheError")}
             /\ (ListsOf(n) /\ Lacks(key))
                => \/ /\ ret' = Err("CacheError")
                      /\ calls' = << >> /\ writes' = << >> /\ cache' = cache
                   \/ /\ nodes[n].client # "Lnd" /\ pc' = "aborted"
                      /\ calls' = << >> /\ writes' = << >> /\ cache' = cache
                   \/ /\ nodes[n].client = "Lnd"
                      /\ calls' = << BackendCall(n, "ListUnspent") >>
                      /\ IF ret'.st = "ok"
                         THEN /\ ret'.val \in Unspent(n)
                              /\ Len(writes') = 1 /\ writes'[1].key = key
                              /\ IF writes'[1].stored
                                 THEN Cached(cache', key, ToJson("ClusterUtxos", ret'.val),
                                             UtxoExpSec)
                                 ELSE cache' = cache
                         ELSE writes' = << >> /\ cache' = cache]_vars

\* C16 happens: a second list_utxos with the key of a node has returned the
\* node's outputs from the cache, no node being called.
C16_Witness ==
    /\ pc = "ready" /\ ncalls = 2
    /\ cur.op = "list_utxos" /\ cur.pubkey = Some(nodes[1].pubkey)
    /\ calls = << >> /\ writes = << >>
    /\ ret.st = "ok" /\ ret.val # << >>
    /\ UtxoKey(nodes[1].pubkey) \in DOMAIN cache
    /\ ret.val = cache[UtxoKey(nodes[1].pubkey)].val.data
\* C17: while a call of a fan-out is outstanding, the lookup does not return
\* and writes nothing to the cache; a step of the fan-out completes the call
\* of one node at most and leaves the calls of the others outstanding, whatever
\* the node answered; the lookup returns only when every node has answered.
C17_WaitsForAll ==
    [][/\ (pc = "fanout" /\ pending # {})
          => /\ pc' = "fanout" /\ ret' = InFlight
             /\ cache' = cache /\ writes' = << >> /\ calls' = calls
             /\ pending' \subseteq pending
             /\ Cardinality(pending \ pending') <= 1
             /\ DOMAIN answers' = Nodes \ pending'
       /\ (pc = "fanout" /\ pc' # "fanout")
          => /\ pending = {}
             /\ DOMAIN answers = Nodes]_vars

\* C17 happens: in a fan-out a node has returned the invoice, the call of
\* another node is outstanding, and the lookup has neither returned nor
\* written.
C17_Witness ==
    /\ pc = "fanout" /\ ret = InFlight
    /\ pending # {}
    /\ \E n \in DOMAIN answers : answers[n].st = "ok"
    /\ writes = << >>
    /\ cur.key \notin DOMAIN cache
\* The nodes that returned an invoice in the fan-out.
Succeeded == {n \in DOMAIN answers : answers[n].st = "ok"}

\* C18: when several nodes return an invoice in a fan-out, the lookup returns
\* the invoice of the first of them in the order of the node list, with the
\* hash and the preimage as to_hex gives them, or the failure of to_hex on
\* that invoice, and an invoice the cache stores is that one, in whichever
\* order the nodes answered.
C18_FirstInNodeOrder ==
    [][(JoinsFound /\ Cardinality(Succeeded) > 1)
       => LET hexed_invoice == HexedInvoice(answers[Min(Succeeded)].val)
          IN  /\ ret' = hexed_invoice
              /\ IF hexed_invoice.st = "ok"
                 THEN /\ ret'.val.pubkey = nodes[Min(Succeeded)].pubkey
                      /\ Len(writes') = 1
                      /\ IF writes'[1].stored
                         THEN Cached(cache', cur.key,
                                     ToJson("ClusterLookupInvoice", hexed_invoice.val),
                                     InvExpSec)
                         ELSE cache' = cache
                 ELSE cache' = cache]_vars

\* C18 happens: the second node returned the invoice before the first node
\* did, in another state, and the lookup has returned and cached the invoice
\* of the first node.
C18_Witness ==
    /\ pc = "ready" /\ cur.op = "lookup_invoice" /\ cur.pubkey = None
    /\ order = << 2, 1 >>
    /\ answers[1].st = "ok" /\ answers[2].st = "ok"
    /\ answers[1].val.state # answers[2].val.state
    /\ ret.st = "ok" /\ ret.val.pubkey = nodes[1].pubkey
    /\ ret.val.state = answers[1].val.state
    /\ Len(writes) = 1 /\ writes[1].stored
    /\ cache[cur.key].val = ToJson("ClusterLookupInvoice", ret.val)
\* The step starts lookup_invoice(h, None) with no live entry under h in the
\* cache, and the cache read does not fail.
MissesUnowned ==
    /\ Starts("lookup_invoice") /\ cur'.pubkey = None
    /\ Lacks(cur'.key)
    /\ ret' # Err("CacheError")

\* The nodes whose client is not Lnd.
Unsupported == {n \in Nodes : nodes[n].client # "Lnd"}

MissesOwned(n) ==
    /\ Starts("lookup_invoice") /\ cur'.pubkey = Some(nodes[n].pubkey)
    /\ Lacks(cur'.key)
    /\ ret' # Err("CacheError")

\* C20 as stated: on a cache miss lookup_invoice(h, Some(p)) for a
\* configured node calls LookupInvoice on that node once and on no other;
\* when it succeeds the cache holds the invoice returned under h with the
\* invoice expiry, and when it fails nothing is written.
C20_OwnerLookupCaches ==
    [][\A n \in Nodes :
         MissesOwned(n)
         => /\ calls' = << BackendCall(n, "LookupInvoice") >>
            /\ IF ret'.st = "ok"
               THEN Cached(cache', cur'.key, ToJson("ClusterLookupInvoice", ret'.val),
                           InvExpSec)
               ELSE writes' = << >> /\ cache' = cache]_vars

\* C20: on a cache miss lookup_invoice(h, Some(p)) for a configured node
\* whose client is Lnd calls LookupInvoice on that node once and on no other.
\* When it succeeds it returns an invoice of that node with the hash and the
\* preimage as to_hex gives them and has written it once under h with the
\* invoice expiry, the cache holding it if it stored the write; when the node
\* or to_hex fails it returns the failure and writes nothing. A node with
\* another client is not called and the call aborts.
C20_OwnerLookupWrites ==
    [][\A n \in Nodes :
         MissesOwned(n)
         => IF nodes[n].client # "Lnd"
            THEN /\ pc' = "aborted"
                 /\ calls' = << >> /\ writes' = << >> /\ cache' = cache
            ELSE /\ pc' = "ready"
                 /\ calls' = << BackendCall(n, "LookupInvoice") >>
                 /\ IF ret'.st = "ok"
                    THEN /\ \E invoice \in NodeLookupInvoice(n, cur'.key) :
                              invoice.st = "ok" /\ ret' = HexedInvoice(invoice.val)
                         /\ ret'.val.pubkey = nodes[n].pubkey
                         /\ Len(writes') = 1 /\ writes'[1].key = cur'.key
                         /\ IF writes'[1].stored
                            THEN Cached(cache', cur'.key,
                                        ToJson("ClusterLookupInvoice", ret'.val), InvExpSec)
                            ELSE cache' = cache
                    ELSE /\ ret' \in {Err("UpstreamRequestFailed"), Err("EncodingError")}
                         /\ writes' = << >> /\ cache' = cache]_vars

\* C20 happens: a lookup with the key of the second node, which has the
\* invoice as the first node has, has called the second node only, and the
\* cache holds the invoice of the second node that it returned.
C20_Witness ==
    /\ pc = "ready"
    /\ cur.op = "lookup_invoice" /\ cur.pubkey = Some(nodes[2].pubkey)
    /\ ledger[1][1] # "none"
    /\ calls = << BackendCall(2, "LookupInvoice") >>
    /\ ret.st = "ok" /\ ret.val.pubkey = nodes[2].pubkey
    /\ Len(writes) = 1 /\ writes[1].stored
    /\ Cached(cache, cur.key, ToJson("ClusterLookupInvoice", ret.val), InvExpSec)
\* C21 as stated: every entry of the cache under a hash h is an invoice that
\* a node holding h returned, and its r_hash is h.
C21_EntriesAreOfTheirHash ==
    \A h \in HashKeys :
        h \in DOMAIN cache
        => /\ cache[h].val.json = "ClusterLookupInvoice"
           /\ \E n \in Nodes : /\ BackendInvoices(n, h) # {}
                                /\ cache[h].val.data.pubkey = nodes[n].pubkey
           /\ cache[h].val.data.r_hash = h
\* The step starts the second request, a lookup of h without owner.
OtherStarts(h) == other.pc = "idle" /\ other'.pc # "idle" /\ other'.key = h

\* The step is the join of the second request's fan-out, an invoice being
\* returned.
OtherJoinsFound == other.pc = "fanout" /\ other'.pc = "ready" /\ other'.ret.st = "ok"

\* The keyspace after the step is the one before it with doc written under
\* key, whatever was there, if the write was stored.
Overwrites(key, write, doc) ==
    IF write.stored
    THEN /\ Cached(cache', key, doc, InvExpSec)
         /\ \A k \in DOMAIN cache' \ {key} : k \in DOMAIN cache /\ cache'[k] = cache[k]
    ELSE cache' = cache

OnlyReads ==
    \/ Starts("lookup_invoice") /\ writes' = << >>
    \/ Starts("list_utxos") /\ cur'.pubkey # None /\ writes' = << >>
    \/ Visits /\ writes' = writes

\* The step starts a call that reads the entry under key.
Reads(key) ==
    \/ LookupStarts(key)
    \/ \E n \in Nodes : ListsOf(n) /\ key = UtxoKey(nodes[n].pubkey)

\* The expiry of the entries under key.
ExpiryOf(key) == IF key \in HashKeys THEN InvExpSec ELSE UtxoExpSec

\* C23: a step in which lookup_invoice or list_utxos reads the cache and
\* writes nothing leaves every entry as it is, its expiry instant included;
\* an entry a call returns was written its expiry ago at most and expires its
\* expiry after it was written, however often it has been read; and a call
\* for an entry whose expiry instant is past is not answered from the cache.
C23_ReadsChangeNothing ==
    [][/\ OnlyReads => cache' = cache
       /\ \A key \in DOMAIN cache :
            /\ (Reads(key) /\ calls' = << >> /\ ret' = Ok(cache[key].val.data))
               => /\ cache'[key].exp = cache[key].at + ExpiryOf(key)
                  /\ now <= cache[key].exp
            /\ (Reads(key) /\ now > cache[key].exp)
               => ~(calls' = << >> /\ ret'.st = "ok")]_vars

\* C23 happens: an entry written a second ago has been returned by a lookup,
\* and it still expires at the instant set when it was written.
C23_Witness ==
    /\ pc = "ready" /\ ncalls = 2
    /\ cur.op = "lookup_invoice" /\ calls = << >> /\ writes = << >>
    /\ cur.key \in DOMAIN cache
    /\ ret = Ok(cache[cur.key].val.data)
    /\ cache[cur.key].at < now
    /\ cache[cur.key].exp = cache[cur.key].at + InvExpSec
\* C24 as stated: while the lookup call of a node of a fan-out is
\* outstanding the lookup does not return, whatever the other nodes have
\* answered; and when every backend call and cache call completes, a call that
\* has not returned returns.
C24_HangsOrReturns ==
    /\ [][\A n \in Nodes :
            (pc = "fanout" /\ n \in pending /\ n \in pending')
            => (pc' = "fanout" /\ ret' = InFlight)]_vars
    /\ (pc # "ready") ~> (pc = "ready")
\* The step creates or overwrites the entry under key.
WritesUnder(key) ==
    key \in DOMAIN cache' /\ (key \notin DOMAIN cache \/ cache'[key] # cache[key])

\* C25 as stated: the entries lookup_invoice reads, whatever text it is passed
\* as the hash, an address or a UTXO key included, are created and overwritten
\* by lookup_invoice only; and a lookup_invoice that finds a live entry under
\* its key, the read not failing, returns an invoice.
C25_DomainsIndependent ==
    [][\A key \in LookupKeys :
          /\ WritesUnder(key) => cur'.op = "lookup_invoice"
          /\ (LookupStarts(key) /\ Holds(key) /\ ret' # Err("CacheError"))
             => ret'.st = "ok"]_vars
\* C26 as stated: a lookup_invoice of h that finds a live entry under h returns
\* that entry, whatever owner it is passed, and calls no node.
C26_HitWhateverOwner ==
    [][\A h \in HashKeys :
          (LookupStarts(h) /\ Holds(h))
          => (ret' = Ok(cache[h].val.data) /\ calls' = << >>)]_vars

\* C26 amended: a lookup_invoice of h that finds a live entry under h returns
\* that entry, or the error of the cache read when the read fails, whatever
\* owner it is passed: a public key no node has, or one that is not the
\* owner of the cached invoice; the owner is not resolved, no node is called
\* and nothing is written.
C26_HitOrReadError ==
    [][\A h \in HashKeys :
          (LookupStarts(h) /\ Holds(h))
          => /\ ret' = Ok(cache[h].val.data) \/ ret' = Err("CacheError")
             /\ calls' = << >> /\ writes' = << >>
             /\ cache' = cache]_vars

\* A lookup passed a public key no node has was answered with the cached
\* invoice of another owner.
C26_Witness ==
    /\ pc = "ready" /\ ncalls = 2
    /\ cur.op = "lookup_invoice" /\ cur.pubkey = Some(UnknownPubkey)
    /\ ret.st = "ok" /\ calls = << >>
    /\ cur.key \in DOMAIN cache /\ ret.val = cache[cur.key].val.data
    /\ Some(ret.val.pubkey) # cur.pubkey
\* The step issued a cache write that Redis did not store.
WriteFailed == writes' # << >> /\ writes' # writes /\ ~writes'[Len(writes')].stored

\* C27: a lookup_invoice or list_utxos whose cache read fails returns the
\* error of the read and calls no node, in a turn of list_utxos without owner
\* no node further; and when the cache write after a node's answer fails, the
\* call goes on as if it had been stored: a lookup returns the invoice, a
\* list_utxos the outputs the node returned, as success, and the cache is as
\* it was, without the entry.
C27_CacheFailures ==
    [][/\ (Starts("lookup_invoice") /\ ret' = Err("CacheError"))
          => (calls' = << >> /\ writes' = << >> /\ cache' = cache)
       /\ (Starts("list_utxos") /\ ret' = Err("CacheError"))
          => (calls' = << >> /\ writes' = << >> /\ cache' = cache)
       /\ (Visits /\ ret' = Err("CacheError"))
          => (calls' = calls /\ writes' = writes /\ cache' = cache)
       /\ (Starts("lookup_invoice") /\ WriteFailed)
          => /\ ret'.st = "ok" /\ cache' = cache
             /\ \E n \in Nodes : \E invoice \in NodeLookupInvoice(n, cur'.key) :
                   invoice.st = "ok" /\ ret' = HexedInvoice(invoice.val)
       /\ (JoinsFound /\ WriteFailed)
          => /\ ret'.st = "ok" /\ cache' = cache
             /\ \E n \in Succeeded : ret' = HexedInvoice(answers[n].val)
       /\ \A n \in Nodes : (ListsOf(n) /\ WriteFailed)
          => (ret'.st = "ok" /\ ret'.val \in Unspent(n) /\ cache' = cache)
       /\ (Visits /\ WriteFailed)
          => /\ Obtained /\ cache' = cache
             /\ \E utxos \in Unspent(idx) : acc' = Extend(acc, utxos) \/ ret' = Ok(Extend(acc, utxos))
      ]_vars

\* A lookup that went to the nodes returned the invoice as success although
\* the cache did not store it, and the cache holds nothing under the hash.
C27_Witness ==
    /\ pc = "ready"
    /\ cur.op = "lookup_invoice" /\ ret.st = "ok"
    /\ calls # << >>
    /\ Len(writes) = 1 /\ writes[1].key = cur.key /\ ~writes[1].stored
    /\ cur.key \notin DOMAIN cache
\* C28: the join of a fan-out in which nodes returned an invoice passes the
\* first of them in node order through to_hex, and no other: when to_hex fails
\* on its hash or its preimage the lookup returns the encoding error, writes
\* nothing and calls no node further, whatever the later nodes returned;
\* otherwise it returns that invoice.
C28_OnlyFirstSuccessHexed ==
    [][JoinsFound =>
          LET hexed_invoice == HexedInvoice(answers[Min(Succeeded)].val)
          IN  /\ ret' = hexed_invoice
              /\ calls' = calls
              /\ hexed_invoice.st # "ok"
                 => (ret' = Err("EncodingError") /\ writes' = << >> /\ cache' = cache)]_vars

\* A fan-out returned the encoding error of the first node's invoice although
\* the second node returned an invoice that to_hex accepts; nothing is cached.
C28_Witness ==
    /\ pc = "ready"
    /\ cur.op = "lookup_invoice" /\ cur.pubkey = None
    /\ ret = Err("EncodingError")
    /\ Succeeded = {1, 2}
    /\ HexedInvoice(answers[2].val).st = "ok"
    /\ writes = << >> /\ cur.key \notin DOMAIN cache
\* The call in flight, or the last one, is list_utxos without owner.
ListsAll == cur.op = "list_utxos" /\ cur.pubkey = None

\* C29: list_utxos(None) calls the nodes in the order of the node list, each
\* once at most and none beyond the node its loop is at, and every node it
\* has passed and fetched from has had its outputs written to the cache; a turn
\* reads the entry of its own node and calls that node only, and the loop goes
\* to the next node only when the turn has obtained the outputs, from the cache
\* or fetched and written; a turn that does not obtain them ends the call where
\* it is, and a call that has ended reads, calls and writes nothing more.
C29_OneNodeAtATime ==
    /\ [](ListsAll =>
            /\ \A j, k \in DOMAIN calls : j < k => calls[j].node < calls[k].node
            /\ \A k \in DOMAIN calls : calls[k].node <= idx
            /\ pc = "utxos"
               => /\ \A k \in DOMAIN calls : calls[k].node < idx
                  /\ Len(writes) = Len(calls)
                  /\ \A k \in DOMAIN calls :
                        writes[k].key = UtxoKey(nodes[calls[k].node].pubkey))
    /\ [][/\ Visits =>
              LET key == UtxoKey(nodes[idx].pubkey)
              IN  /\ calls' = calls \/ calls' = calls \o << BackendCall(idx, "ListUnspent") >>
                  /\ pc' = "utxos"
                     => (idx' = idx + 1 /\ (VisitFromCache(key) \/ VisitFetched(key)))
                  /\ ~Obtained => (pc' # "utxos" /\ writes' = writes /\ UNCHANGED loop)
           /\ (ListsAll /\ pc # "utxos" /\ ncalls' = ncalls)
              => (calls' = calls /\ writes' = writes /\ cache' = cache /\ UNCHANGED loop)
          ]_vars

\* list_utxos(None) has ended at the first node, whose ListUnspent failed; the
\* second node has not been called, and its outputs, which the cache holds,
\* are not part of any result.
C29_Witness ==
    /\ pc = "ready" /\ ListsAll
    /\ ret = Err("UpstreamRequestFailed")
    /\ idx = 1
    /\ calls = << BackendCall(1, "ListUnspent") >> /\ writes = << >>
    /\ Holds(UtxoKey(nodes[2].pubkey))
====
